---- MODULE Spec2Model ----
(***************************************************************************)
(* Mergington High School activities API (src/src/app.py).                 *)
(*                                                                         *)
(* The program is one module-level dictionary, `activities`, and three     *)
(* route handlers: root (GET /), get_activities (GET /activities) and      *)
(* signup_for_activity (POST /activities/{activity_name}/signup).  Every   *)
(* other request, DELETE /activities/{activity_name}/participants          *)
(* included, matches no route and is answered by the router's default      *)
(* 404 {"detail": "Not Found"}.                                            *)
(*                                                                         *)
(* Spec      : requests are served one at a time (each handler atomic).    *)
(* SpecConc  : NumThreads signup requests run in worker threads; the       *)
(*             membership test (line 108) and the append (line 112) of a   *)
(*             request are separate steps, with no lock between them.      *)
(*                                                                         *)
(* Texts (the `detail` of an error) are sequences of words, so that the    *)
(* tests' `needle in detail` is a computed, case-sensitive containment.    *)
(***************************************************************************)
EXTENDS Integers, Sequences, FiniteSets, TLC

VARIABLES
    activities,     \* the in-memory activity database (app.py:23-84)
    request,        \* the request served last
    response,       \* its response
    prev,           \* `activities` as it was before that request
    prev_request,   \* the request served before it
    prev_response,  \* that request's response
    prev2,          \* `activities` as it was before prev_request
    pc,             \* SpecConc: each worker thread's position in signup_for_activity
    treq,           \* SpecConc: each worker thread's (activity_name, email)
    tresp           \* SpecConc: each worker thread's response

seqvars == <<request, response, prev, prev_request, prev_response, prev2>>
concvars == <<pc, treq, tresp>>
vars == <<activities, request, response, prev, prev_request, prev_response, prev2,
          pc, treq, tresp>>

----------------------------------------------------------------------------
(* Bounds *)

\* Students enrolled in Chess Club beyond its max_participants in the fullest
\* start state (0 = exactly at capacity).
MaxOver == 0

\* Worker threads serving signup requests at the same time.
NumThreads == 2

Threads == 1..NumThreads

\* Path parameters the requests use: two seeded activities and one that is
\* not a key of the registry (tests/test_app.py:67).
ActivityNames == {"Chess Club", "Programming Class", "NonExistent Activity"}

\* Query parameters the requests use: one student seeded in Chess Club, one
\* seeded in Programming Class, one seeded nowhere.
Emails == {"michael@mergington.edu", "emma@mergington.edu", "new@x.edu"}

----------------------------------------------------------------------------
(* Helpers *)

Range(s) == {s[i] : i \in 1..Len(s)}

Count(s, x) == Cardinality({i \in 1..Len(s) : s[i] = x})

NoDuplicates(s) == \A i, j \in 1..Len(s) : s[i] = s[j] => i = j

\* s without its first occurrence of x (s itself when x is absent).
RECURSIVE RemoveFirst(_, _)
RemoveFirst(s, x) ==
    IF s = <<>> THEN <<>>
    ELSE IF Head(s) = x THEN Tail(s)
    ELSE <<Head(s)>> \o RemoveFirst(Tail(s), x)

\* Python's `needle in hay` (tests/test_app.py:62,120,128) on texts held as
\* sequences of words: needle occurs in hay as a contiguous run, case kept.
Contains(needle, hay) ==
    \E i \in 0..(Len(hay) - Len(needle)) :
        SubSeq(hay, i + 1, i + Len(needle)) = needle

NoBody == [n \in {} |-> <<>>]

NoRequest == [method |-> "NONE", kind |-> "none", activity_name |-> "", email |-> ""]

NoResponse == [status |-> 0, detail |-> <<>>, message |-> <<>>, body |-> NoBody]

----------------------------------------------------------------------------
(* The seeded registry, app.py:23-84 *)

Seeded ==
    [n \in {"Chess Club", "Programming Class", "Gym Class", "Soccer Team",
            "Basketball Club", "Art Club", "Drama Club", "Debate Team",
            "Science Club"} |->
       CASE n = "Chess Club" ->
              [description |-> "Learn strategies and compete in chess tournaments",
               schedule |-> "Fridays, 3:30 PM - 5:00 PM",
               max_participants |-> 12,
               participants |-> <<"michael@mergington.edu", "daniel@mergington.edu">>]
         [] n = "Programming Class" ->
              [description |-> "Learn programming fundamentals and build software projects",
               schedule |-> "Tuesdays and Thursdays, 3:30 PM - 4:30 PM",
               max_participants |-> 20,
               participants |-> <<"emma@mergington.edu", "sophia@mergington.edu">>]
         [] n = "Gym Class" ->
              [description |-> "Physical education and sports activities",
               schedule |-> "Mondays, Wednesdays, Fridays, 2:00 PM - 3:00 PM",
               max_participants |-> 30,
               participants |-> <<"john@mergington.edu", "olivia@mergington.edu">>]
         [] n = "Soccer Team" ->
              [description |-> "Competitive soccer training and matches",
               schedule |-> "Mondays and Thursdays, 4:00 PM - 6:00 PM",
               max_participants |-> 18,
               participants |-> <<"alex@mergington.edu", "nina@mergington.edu">>]
         [] n = "Basketball Club" ->
              [description |-> "Practice drills, scrimmages, and intramural games",
               schedule |-> "Tuesdays and Fridays, 4:30 PM - 6:00 PM",
               max_participants |-> 12,
               participants |-> <<"liam@mergington.edu", "ava@mergington.edu">>]
         [] n = "Art Club" ->
              [description |-> "Explore drawing, painting, and mixed media projects",
               schedule |-> "Wednesdays, 3:30 PM - 5:00 PM",
               max_participants |-> 15,
               participants |-> <<"isabella@mergington.edu", "jack@mergington.edu">>]
         [] n = "Drama Club" ->
              [description |-> "Acting, stagecraft, and production of school plays",
               schedule |-> "Thursdays, 5:00 PM - 7:00 PM",
               max_participants |-> 25,
               participants |-> <<"grace@mergington.edu", "mason@mergington.edu">>]
         [] n = "Debate Team" ->
              [description |-> "Competitive debating and public speaking practice",
               schedule |-> "Wednesdays and Fridays, 4:00 PM - 5:30 PM",
               max_participants |-> 20,
               participants |-> <<"harper@mergington.edu", "noah@mergington.edu">>]
         [] n = "Science Club" ->
              [description |-> "Hands-on experiments, research projects, and science fairs",
               schedule |-> "Tuesdays, 4:00 PM - 5:30 PM",
               max_participants |-> 25,
               participants |-> <<"sophia.r@mergington.edu", "ethan@mergington.edu">>]]

\* The fixed part of an activity record.
Meta(a) == [description |-> a.description, schedule |-> a.schedule,
            max_participants |-> a.max_participants]

----------------------------------------------------------------------------
(* signup_for_activity, app.py:97-113 *)

\* app.py:101  `activity_name not in activities`, negated.
activity_exists(acts, activity_name) == activity_name \in DOMAIN acts

\* Mutant: only the most recent participant is compared.
already_signed_up_last_only(acts, activity_name, email) ==
    LET p == acts[activity_name].participants
    IN  Len(p) > 0 /\ p[Len(p)] = email

\* Mutant: the duplicate check is left out.
already_signed_up_never(acts, activity_name, email) == FALSE

\* app.py:105-108  `email in activity["participants"]`.
already_signed_up(acts, activity_name, email) ==
    email \in Range(acts[activity_name].participants)

\* Mutant: set-like add, an email already present is not appended again.
list_append_unique(l, x) == IF x \in Range(l) THEN l ELSE Append(l, x)

\* app.py:112  list.append.
list_append(l, x) == Append(l, x)

\* Mutant: every activity shares one participants list, so the append shows
\* in all of them.
signup_add_aliased(acts, activity_name, email) ==
    [n \in DOMAIN acts |->
        [acts[n] EXCEPT !.participants = list_append(acts[n].participants, email)]]

\* app.py:105,112  activity["participants"].append(email): the registry after it.
signup_add(acts, activity_name, email) ==
    [acts EXCEPT ![activity_name].participants =
        list_append(acts[activity_name].participants, email)]

\* app.py:102
ActivityNotFound ==
    [status |-> 404, detail |-> <<"Activity", "not", "found">>,
     message |-> <<>>, body |-> NoBody]

\* app.py:109
DuplicateSignup ==
    [status |-> 400,
     detail |-> <<"Student", "already", "signed", "up", "for", "this", "activity">>,
     message |-> <<>>, body |-> NoBody]

\* app.py:113  {"message": f"Signed up {email} for {activity_name}"}
SignedUp(activity_name, email) ==
    [status |-> 200, detail |-> <<>>,
     message |-> <<"Signed", "up", email, "for", activity_name>>, body |-> NoBody]

\* Mutant: max_participants is enforced as a capacity limit.
signup_capacity_enforced(acts, activity_name, email) ==
    IF ~activity_exists(acts, activity_name)
    THEN [activities |-> acts, response |-> ActivityNotFound]
    ELSE IF already_signed_up(acts, activity_name, email)
    THEN [activities |-> acts, response |-> DuplicateSignup]
    ELSE IF Len(acts[activity_name].participants) >= acts[activity_name].max_participants
    THEN [activities |-> acts,
          response |-> [status |-> 400, detail |-> <<"Activity", "is", "full">>,
                        message |-> <<>>, body |-> NoBody]]
    ELSE [activities |-> signup_add(acts, activity_name, email),
          response |-> SignedUp(activity_name, email)]

\* Mutant: an unknown activity is created on first signup (dict.setdefault).
signup_autocreate(acts, activity_name, email) ==
    IF ~activity_exists(acts, activity_name)
    THEN [activities |->
              (activity_name :> [description |-> "", schedule |-> "",
                                 max_participants |-> 0,
                                 participants |-> <<email>>]) @@ acts,
          response |-> SignedUp(activity_name, email)]
    ELSE IF already_signed_up(acts, activity_name, email)
    THEN [activities |-> acts, response |-> DuplicateSignup]
    ELSE [activities |-> signup_add(acts, activity_name, email),
          response |-> SignedUp(activity_name, email)]

\* app.py:97-113, the whole handler run without interruption: the registry
\* after the call and the response.
signup_for_activity(acts, activity_name, email) ==
    IF ~activity_exists(acts, activity_name)
    THEN [activities |-> acts, response |-> ActivityNotFound]
    ELSE IF already_signed_up(acts, activity_name, email)
    THEN [activities |-> acts, response |-> DuplicateSignup]
    ELSE [activities |-> signup_add(acts, activity_name, email),
          response |-> SignedUp(activity_name, email)]

----------------------------------------------------------------------------
(* The other handlers and the route table, app.py:87-98 *)

\* app.py:87-89
root(acts) ==
    [activities |-> acts,
     response |-> [status |-> 307, detail |-> <<>>,
                   message |-> <<"/static/index.html">>, body |-> NoBody]]

\* app.py:92-94
get_activities(acts) ==
    [activities |-> acts,
     response |-> [status |-> 200, detail |-> <<>>, message |-> <<>>, body |-> acts]]

\* The routes the module registers (app.py:87, 92, 97).  A path is held by
\* its shape: "root" is /, "activities" is /activities, "signup" is
\* /activities/{activity_name}/signup, "participants" is
\* /activities/{activity_name}/participants.
Routes ==
    {[method |-> "GET", kind |-> "root"],
     [method |-> "GET", kind |-> "activities"],
     [method |-> "POST", kind |-> "signup"]}

\* The router's answers to a request no handler serves.
RouteNotFound ==
    [status |-> 404, detail |-> <<"Not", "Found">>, message |-> <<>>, body |-> NoBody]

MethodNotAllowed ==
    [status |-> 405, detail |-> <<"Method", "Not", "Allowed">>,
     message |-> <<>>, body |-> NoBody]

\* One request through the application: the matching handler, or the
\* router's 404 / 405 when the path / the method matches no route.
Dispatch(acts, req) ==
    IF ~\E r \in Routes : r.kind = req.kind
    THEN [activities |-> acts, response |-> RouteNotFound]
    ELSE IF [method |-> req.method, kind |-> req.kind] \notin Routes
    THEN [activities |-> acts, response |-> MethodNotAllowed]
    ELSE CASE req.kind = "root" -> root(acts)
           [] req.kind = "activities" -> get_activities(acts)
           [] req.kind = "signup" ->
                signup_for_activity(acts, req.activity_name, req.email)

----------------------------------------------------------------------------
(* Start states *)

Filler(i) == "student" \o ToString(i) \o "@mergington.edu"

\* Seeded, with k more students enrolled in Chess Club (what k successful
\* signups of k new emails leave behind).
Prefilled(k) ==
    [Seeded EXCEPT !["Chess Club"].participants = @ \o [i \in 1..k |-> Filler(i)]]

\* The registry as the module builds it, and the registry with Chess Club
\* filled to its max_participants (and up to MaxOver beyond).
StartRegistries ==
    {Seeded} \cup
    {Prefilled(Seeded["Chess Club"].max_participants
               - Len(Seeded["Chess Club"].participants) + o) : o \in 0..MaxOver}

Init ==
    /\ activities \in StartRegistries
    /\ request = NoRequest
    /\ response = NoResponse
    /\ prev = activities
    /\ prev_request = NoRequest
    /\ prev_response = NoResponse
    /\ prev2 = activities
    /\ pc = [t \in Threads |-> "idle"]
    /\ treq = [t \in Threads |-> [activity_name |-> "", email |-> ""]]
    /\ tresp = [t \in Threads |-> NoResponse]

----------------------------------------------------------------------------
(* Spec: requests served one at a time *)

Serve(req) ==
    LET r == Dispatch(activities, req)
    IN  /\ activities' = r.activities
        /\ response' = r.response
        /\ request' = req
        /\ prev' = activities
        /\ prev_request' = request
        /\ prev_response' = response
        /\ prev2' = prev

\* GET /
Root ==
    /\ Serve([method |-> "GET", kind |-> "root", activity_name |-> "", email |-> ""])
    /\ UNCHANGED concvars

\* GET /activities
List ==
    /\ Serve([method |-> "GET", kind |-> "activities", activity_name |-> "", email |-> ""])
    /\ UNCHANGED concvars

\* POST /activities/{activity_name}/signup?email=...
Enroll ==
    \E n \in ActivityNames, e \in Emails :
        /\ Serve([method |-> "POST", kind |-> "signup", activity_name |-> n, email |-> e])
        /\ UNCHANGED concvars

\* DELETE /activities/{activity_name}/participants?email=...
Withdraw ==
    \E n \in ActivityNames, e \in Emails :
        /\ Serve([method |-> "DELETE", kind |-> "participants",
                  activity_name |-> n, email |-> e])
        /\ UNCHANGED concvars

Next == Root \/ List \/ Enroll \/ Withdraw

Spec == Init /\ [][Next]_vars

----------------------------------------------------------------------------
(* SpecConc: signup requests in worker threads.  A thread runs lines        *)
(* 101-109 (both validations, each a single read of the registry) in one    *)
(* step and line 112-113 (the append, the reply) in a later one; nothing    *)
(* in the handler holds a lock between the two.                             *)

\* app.py:98-109  a thread takes a request and validates it.
Validate(t) ==
    /\ pc[t] = "idle"
    /\ \E n \in ActivityNames, e \in Emails :
          /\ treq' = [treq EXCEPT ![t] = [activity_name |-> n, email |-> e]]
          /\ IF ~activity_exists(activities, n)
             THEN /\ tresp' = [tresp EXCEPT ![t] = ActivityNotFound]
                  /\ pc' = [pc EXCEPT ![t] = "done"]
             ELSE IF already_signed_up(activities, n, e)
             THEN /\ tresp' = [tresp EXCEPT ![t] = DuplicateSignup]
                  /\ pc' = [pc EXCEPT ![t] = "done"]
             ELSE /\ tresp' = tresp
                  /\ pc' = [pc EXCEPT ![t] = "append"]
    /\ UNCHANGED <<activities, seqvars>>

\* app.py:112-113  the thread appends and replies.
Add(t) ==
    /\ pc[t] = "append"
    /\ activities' = signup_add(activities, treq[t].activity_name, treq[t].email)
    /\ tresp' = [tresp EXCEPT ![t] = SignedUp(treq[t].activity_name, treq[t].email)]
    /\ pc' = [pc EXCEPT ![t] = "done"]
    /\ UNCHANGED <<treq, seqvars>>

NextConc == \E t \in Threads : Validate(t) \/ Add(t)

SpecConc == Init /\ [][NextConc]_vars

----------------------------------------------------------------------------
(* Properties of Spec.  Each speaks of the request served last: `prev` is   *)
(* the registry it found, `activities` the registry it left.                *)

IsEnroll == request.method = "POST" /\ request.kind = "signup"

IsWithdraw == request.method = "DELETE" /\ request.kind = "participants"

Known == request.activity_name \in DOMAIN prev

Before == prev[request.activity_name].participants

After == activities[request.activity_name].participants

\* C1: signing up an email that is not yet a participant of an existing
\* activity succeeds (200) however full the activity is, and the new
\* participants are the old ones followed by that email.
C1_EnrollAppends ==
    (IsEnroll /\ Known /\ request.email \notin Range(Before)) =>
        /\ response.status = 200
        /\ After = Before \o <<request.email>>
        /\ Len(After) = Len(Before) + 1
        /\ \A i \in 1..Len(Before) : After[i] = Before[i]

\* A signup of a new email has succeeded on an activity that already held
\* max_participants or more.
C1_Witness ==
    /\ IsEnroll /\ Known /\ request.email \notin Range(Before)
    /\ Len(Before) >= prev[request.activity_name].max_participants
    /\ response.status = 200
    /\ Len(After) > activities[request.activity_name].max_participants

\* C2: signing up an email that already is a participant of the activity
\* fails with 400 'Student already signed up for this activity' and leaves
\* the whole registry as it was.
C2_DuplicateRejected ==
    (IsEnroll /\ Known /\ request.email \in Range(Before)) =>
        /\ response.status = 400
        /\ response.detail =
             <<"Student", "already", "signed", "up", "for", "this", "activity">>
        /\ Contains(<<"already", "signed", "up">>, response.detail)
        /\ activities = prev

\* A second signup of an email that an earlier request enrolled has been
\* answered (tests/test_app.py:49-62).
C2_Witness ==
    /\ IsEnroll /\ Known /\ request.email \in Range(Before)
    /\ request.email \notin Range(Seeded[request.activity_name].participants)
    /\ response.status = 400

\* C3: signing up for a name that is not a key of the registry fails with
\* 404 'Activity not found', adds no key and changes no participants.
C3_EnrollUnknownActivity ==
    (IsEnroll /\ ~Known) =>
        /\ response.status = 404
        /\ response.detail = <<"Activity", "not", "found">>
        /\ request.activity_name \notin DOMAIN activities
        /\ DOMAIN activities = DOMAIN prev
        /\ \A n \in DOMAIN prev : activities[n].participants = prev[n].participants

C3_Witness ==
    /\ IsEnroll /\ ~Known
    /\ request.activity_name = "NonExistent Activity"
    /\ response.status = 404

\* C4: withdrawing a participant of an existing activity succeeds (200) and
\* leaves the old participants without that email: absent, one shorter, the
\* others in their old order.
C4_WithdrawRemoves ==
    (IsWithdraw /\ Known /\ request.email \in Range(Before)) =>
        /\ response.status = 200
        /\ request.email \notin Range(After)
        /\ Len(After) = Len(Before) - 1
        /\ After = RemoveFirst(Before, request.email)

\* C5: withdrawing an email that is no participant of an existing activity
\* fails with 404 and a detail containing 'not registered', participants
\* unchanged.
C5_WithdrawNotRegistered ==
    (IsWithdraw /\ Known /\ request.email \notin Range(Before)) =>
        /\ response.status = 404
        /\ Contains(<<"not", "registered">>, response.detail)
        /\ After = Before

\* C6: withdrawing from a name that is not a key of the registry fails with
\* 404 and a detail containing 'Activity not found', which is not the
\* not-registered answer, and the registry is unchanged.
C6_WithdrawUnknownActivity ==
    (IsWithdraw /\ ~Known) =>
        /\ response.status = 404
        /\ Contains(<<"Activity", "not", "found">>, response.detail)
        /\ ~Contains(<<"not", "registered">>, response.detail)
        /\ activities = prev

\* C7: a successful signup of a new email followed at once by the withdrawal
\* of the same email from the same activity succeeds too, and the
\* participants are again what they were before the signup.
C7_RoundTrip ==
    (/\ IsWithdraw
     /\ prev_request.method = "POST" /\ prev_request.kind = "signup"
     /\ prev_request.activity_name = request.activity_name
     /\ prev_request.email = request.email
     /\ prev_response.status = 200) =>
        /\ response.status = 200
        /\ After = prev2[request.activity_name].participants

\* C8: no activity ever lists the same email twice.
C8_NoDuplicates ==
    \A n \in DOMAIN activities : NoDuplicates(activities[n].participants)

\* An activity holds, besides its seeded participants, two emails that
\* signed up later, and a repeated signup of one of them has been refused.
C8_Witness ==
    /\ \E n \in DOMAIN activities :
          /\ Len(activities[n].participants) >= Len(Seeded[n].participants) + 2
          /\ IsEnroll /\ request.activity_name = n
          /\ request.email \in Range(prev[n].participants)
    /\ response.status = 400

\* C9: the keys of the registry and each activity's description, schedule
\* and max_participants stay as seeded; a request changes at most the
\* participants of the activity it names (GET /activities changes nothing);
\* and whether a signup succeeds depends on that activity's participants
\* alone.
C9_Frame ==
    /\ DOMAIN activities = DOMAIN Seeded
    /\ \A n \in DOMAIN activities : Meta(activities[n]) = Meta(Seeded[n])
    /\ \A n \in DOMAIN activities :
          n # request.activity_name => activities[n].participants = prev[n].participants
    /\ request.kind = "activities" => (activities = prev /\ response.body = prev)
    /\ (IsEnroll /\ Known) =>
          (response.status = 200 <=> request.email \notin Range(Before))

\* A student who is a participant of another activity has signed up.
C9_Witness ==
    /\ IsEnroll /\ Known /\ response.status = 200
    /\ \E n \in DOMAIN prev :
          /\ n # request.activity_name
          /\ request.email \in Range(prev[n].participants)
    /\ activities # prev

----------------------------------------------------------------------------
(* Properties of SpecConc *)

\* The email is in the activity's participants in no start state.
NewAtStart(n, e) ==
    n \in DOMAIN Seeded /\ e \notin Range(Seeded[n].participants) /\ e \in Emails

\* The threads that have finished a signup of e for n / finished it with 200.
Finished(n, e) ==
    {t \in Threads : pc[t] = "done" /\ treq[t] = [activity_name |-> n, email |-> e]}

Succeeded(n, e) == {t \in Finished(n, e) : tresp[t].status = 200}

\* C10 as stated: of two finished signups of the same new email for the same
\* activity exactly one succeeded, the other got 400 DuplicateSignup, and the
\* email is listed once; two finished signups of different new emails for
\* the same activity are both listed.
C10_AtomicEnroll ==
    \A t, u \in Threads :
        (/\ t # u /\ pc[t] = "done" /\ pc[u] = "done"
         /\ treq[t].activity_name = treq[u].activity_name
         /\ NewAtStart(treq[t].activity_name, treq[t].email)
         /\ NewAtStart(treq[u].activity_name, treq[u].email)) =>
            LET p == activities[treq[t].activity_name].participants
            IN  IF treq[t].email = treq[u].email
                THEN /\ {tresp[t].status, tresp[u].status} = {200, 400}
                     /\ Count(p, treq[t].email) = 1
                ELSE treq[t].email \in Range(p) /\ treq[u].email \in Range(p)

\* C10 amended: for an activity and an email new to it, the email is listed
\* once per signup that succeeded (no append is lost, and two signups that
\* both passed the check before either appended list it twice); a finished
\* signup that did not succeed got 400 DuplicateSignup; and once any signup
\* of it has finished, at least one has succeeded.
C10_EnrollRace ==
    \A n \in DOMAIN Seeded, e \in Emails :
        NewAtStart(n, e) =>
            /\ Count(activities[n].participants, e) = Cardinality(Succeeded(n, e))
            /\ \A t \in Finished(n, e) \ Succeeded(n, e) : tresp[t] = DuplicateSignup
            /\ Finished(n, e) # {} => Succeeded(n, e) # {}

\* Two signups of the same new email for the same activity have both
\* succeeded, and the email is listed twice.
C10_Witness ==
    \E t, u \in Threads :
        /\ t # u /\ pc[t] = "done" /\ pc[u] = "done"
        /\ treq[t] = treq[u]
        /\ NewAtStart(treq[t].activity_name, treq[t].email)
        /\ tresp[t].status = 200 /\ tresp[u].status = 200
        /\ Count(activities[treq[t].activity_name].participants, treq[t].email) = 2

====
